---- MODULE Spec2Model ----
(***************************************************************************)
(* eradicate-tui: the application state (src/src/lib.rs) driven by the     *)
(* key-event loop of run_app (src/src/main.rs), over a small filesystem.   *)
(*                                                                         *)
(* A character is a one-character string, a file name and the pattern      *)
(* buffer are sequences of characters, a path is a sequence of file names  *)
(* relative to the working directory.  Indices of the list selection are   *)
(* 0-based as in the code; TLA+ sequences are 1-based.                     *)
(***************************************************************************)
EXTENDS Integers, Sequences, FiniteSets, TLC

VARIABLES list, app_mode, pattern, glob_options, fs, locked, pc, last, attempted

vars == <<list, app_mode, pattern, glob_options, fs, locked, pc, last, attempted>>

\* Longest collection of the StatefulList specification.
MaxItems == 4
\* Longest pattern the user types.
MaxLen == 4
\* Largest number of paths on which the delete primitives fail.
MaxLocked == 1

\* Option<usize>::None of ListState.selected
None == -1

(***************************************************************************)
(* The filesystem below the working directory.                             *)
(***************************************************************************)
NameA == <<"a">>
NameD == <<"d">>
NameQ == <<"q">>

\* a (file), d (directory), d/a (file), d/q (file)
Universe == { <<NameA>>, <<NameD>>, <<NameD, NameA>>, <<NameD, NameQ>> }

Directories == { <<NameD>> }

\* Path::is_dir on the filesystem f; the working directory <<>> always is one
IsDir(p, f) == p = <<>> \/ (p \in f /\ p \in Directories)

\* Path::is_file on the filesystem f
IsFile(p, f) == p \in f /\ p \notin Directories

IsPrefix(p, q) == Len(p) <= Len(q) /\ SubSeq(q, 1, Len(p)) = p

\* the tree rooted at p: p and everything below it
Tree(p, f) == { q \in f : IsPrefix(p, q) }

\* a remove_file that succeeds on a path that is already gone
RemoveFile_Force(p, f) ==
    IF (IsFile(p, f) \/ p \notin f) /\ p \notin locked
    THEN { [ok |-> TRUE, fs |-> f \ {p}] }
    ELSE { [ok |-> FALSE, fs |-> f] }

\* fs::remove_file: the outcomes [ok, fs] of removing the single file p
RemoveFile(p, f) ==
    IF IsFile(p, f) /\ p \notin locked
    THEN { [ok |-> TRUE, fs |-> f \ {p}] }
    ELSE { [ok |-> FALSE, fs |-> f] }

\* What a failing recursive removal of p may already have removed: paths of
\* the tree that are not locked and do not contain a locked path, whole
\* subtrees at a time (a directory goes only after its contents).
PartialRemovals(p, f) ==
    LET blocked == { q \in Tree(p, f) : \E l \in Tree(p, f) \cap locked : IsPrefix(q, l) }
    IN  { R \in SUBSET (Tree(p, f) \ blocked) :
            \A q \in R : Tree(q, f) \subseteq R }

\* fs::remove_dir_all: the outcomes [ok, fs] of removing the tree rooted at p.
\* It fails on a path that is missing or is not a directory, and when any path
\* of the tree cannot be removed; in the latter case part of the tree is gone.
RemoveDirAll(p, f) ==
    IF ~(p \in f /\ p \in Directories)
    THEN { [ok |-> FALSE, fs |-> f] }
    ELSE IF Tree(p, f) \cap locked = {}
         THEN { [ok |-> TRUE, fs |-> f \ Tree(p, f)] }
         ELSE { [ok |-> FALSE, fs |-> f \ R] : R \in PartialRemovals(p, f) }

(***************************************************************************)
(* glob_with: pattern validation, matching of one path component, and the  *)
(* directory walk that yields the matches in order.                        *)
(***************************************************************************)
\* Characters of the keyboard that the model types.  There is no "]", so a
\* "[" never opens a well-formed character class.
Chars == { "a", "A", "d", "q", "*", "/", "[" }

\* byte value of a character: the order of file names
Code(c) ==
    CASE c = "*" -> 42 [] c = "/" -> 47 [] c = "A" -> 65 [] c = "[" -> 91
      [] c = "a" -> 97 [] c = "d" -> 100 [] c = "q" -> 113

\* char::to_ascii_lowercase
ToLower(c) == IF c = "A" THEN "a" ELSE c

\* Pattern::new on the whole pattern: "[" without "]" is an invalid range; a
\* run of more than two "*" is invalid; "**" must be a whole path component.
ValidPattern(s) ==
    /\ \A i \in 1..Len(s) : s[i] # "["
    /\ \A i \in 1..Len(s) :
         (s[i] = "*" /\ (i = 1 \/ s[i-1] # "*")) =>
            LET run == CHOOSE n \in 1..Len(s) :
                          /\ \A j \in i..(i+n-1) : j <= Len(s) /\ s[j] = "*"
                          /\ (i+n > Len(s) \/ s[i+n] # "*")
            IN  /\ run <= 2
                /\ run = 2 =>
                     /\ (i = 1 \/ s[i-1] = "/")
                     /\ (i+1 = Len(s) \/ s[i+2] = "/")

\* str::split_terminator(is_separator): the components between "/", without
\* the empty component after a trailing separator
RECURSIVE SplitFrom(_, _, _)
SplitFrom(s, i, cur) ==
    IF i > Len(s) THEN (IF cur = <<>> THEN <<>> ELSE <<cur>>)
    ELSE IF s[i] = "/" THEN <<cur>> \o SplitFrom(s, i+1, <<>>)
    ELSE SplitFrom(s, i+1, Append(cur, s[i]))

SplitTerminator(s) == SplitFrom(s, 1, <<>>)

\* the dir_patterns of glob_with: one pattern per component; the empty
\* pattern gives one empty component
DirPatterns(s) == IF s = <<>> THEN << <<>> >> ELSE SplitTerminator(s)

\* require_dir of glob_with: the pattern ends with a separator
RequireDir(s) == s # <<>> /\ s[Len(s)] = "/"

\* Pattern::is_recursive of a component
IsRecursive(c) == c = <<"*", "*">>

\* pattern_as_str(..).is_some(): the component has no metacharacter
IsLiteral(c) == \A i \in 1..Len(c) : c[i] # "*"

CharEq(c, ch, case_sensitive) ==
    IF case_sensitive THEN c = ch ELSE ToLower(c) = ToLower(ch)

\* Pattern::matches_with of a non-recursive component against a file name
RECURSIVE MatchesWith(_, _, _)
MatchesWith(c, name, case_sensitive) ==
    IF c = <<>> THEN name = <<>>
    ELSE IF Head(c) = "*"
         THEN \E k \in 0..Len(name) :
                 MatchesWith(Tail(c), SubSeq(name, k+1, Len(name)), case_sensitive)
         ELSE /\ name # <<>>
              /\ CharEq(Head(c), Head(name), case_sensitive)
              /\ MatchesWith(Tail(c), Tail(name), case_sensitive)

\* lexicographic byte order of file names
RECURSIVE NameLess(_, _)
NameLess(m, n) ==
    IF m = <<>> THEN n # <<>>
    ELSE IF n = <<>> THEN FALSE
    ELSE IF Head(m) = Head(n) THEN NameLess(Tail(m), Tail(n))
    ELSE Code(Head(m)) < Code(Head(n))

\* fs::read_dir of p, in the order in which the walk visits the children
RECURSIVE SortPaths(_)
SortPaths(S) ==
    IF S = {} THEN <<>>
    ELSE LET m == CHOOSE x \in S :
                     \A y \in S \ {x} : NameLess(x[Len(x)], y[Len(y)])
         IN  <<m>> \o SortPaths(S \ {m})

ReadDir(p, f) == SortPaths({ q \in f : Len(q) = Len(p) + 1 /\ IsPrefix(p, q) })

RECURSIVE Flatten(_)
Flatten(ss) == IF ss = <<>> THEN <<>> ELSE Head(ss) \o Flatten(Tail(ss))

\* FillTodo: the matches that fill_todo(patterns, idx, path) leads to;
\* Visit: the matches that popping (path, idx) from the todo stack leads to.
RECURSIVE FillTodo(_, _, _, _, _, _), Visit(_, _, _, _, _, _)
FillTodo(pats, idx, path, f, case_sensitive, require_dir) ==
    LET c == pats[idx]
    IN  IF IsLiteral(c)
        THEN LET next_path == Append(path, c)
             IN  IF next_path \in f
                 THEN IF idx = Len(pats)
                      THEN IF require_dir /\ ~IsDir(next_path, f)
                           THEN <<>> ELSE <<next_path>>
                      ELSE FillTodo(pats, idx+1, next_path, f, case_sensitive, require_dir)
                 ELSE <<>>
        ELSE IF IsDir(path, f)
             THEN LET children == ReadDir(path, f)
                  IN  Flatten([i \in 1..Len(children) |->
                         Visit(pats, idx, children[i], f, case_sensitive, require_dir)])
             ELSE <<>>

Visit(pats, idx0, path, f, case_sensitive, require_dir) ==
    LET n == Len(pats)
        rec == IsRecursive(pats[idx0])
        \* collapse consecutive recursive patterns
        next == IF rec
                THEN CHOOSE k \in idx0..n :
                        /\ \A j \in idx0..k : IsRecursive(pats[j])
                        /\ (k = n \/ ~IsRecursive(pats[k+1]))
                ELSE idx0
        below == IF rec /\ IsDir(path, f)
                 THEN FillTodo(pats, next, path, f, case_sensitive, require_dir)
                 ELSE <<>>
        idx == IF rec THEN next + 1 ELSE idx0
    IN  IF rec /\ next = n
        THEN IF IsDir(path, f) THEN <<path>> \o below ELSE <<>>
        ELSE IF MatchesWith(pats[idx], path[Len(path)], case_sensitive)
             THEN IF idx = n
                  THEN (IF ~require_dir \/ IsDir(path, f) THEN <<path>> ELSE <<>>) \o below
                  ELSE FillTodo(pats, idx+1, path, f, case_sensitive, require_dir) \o below
             ELSE below

\* glob_with(pattern, options) followed by filter_map(Result::ok): the matched
\* paths in matcher order (a valid pattern is assumed)
GlobWith(s, case_sensitive, f) ==
    FillTodo(DirPatterns(s), 1, <<>>, f, case_sensitive, RequireDir(s))

(***************************************************************************)
(* PathEntry, StatefulList and App (src/src/lib.rs).                       *)
(***************************************************************************)
\* a PathEntry::new whose entries start unmarked
PathEntry_new_Unmarked(pathbuf, f) ==
    [pathbuf |-> pathbuf, is_file |-> IsFile(pathbuf, f), is_delete |-> FALSE]

\* PathEntry::new: is_file is probed once, the entry starts marked
PathEntry_new(pathbuf, f) ==
    [pathbuf |-> pathbuf, is_file |-> IsFile(pathbuf, f), is_delete |-> TRUE]

\* PathEntry::toggle_delete
PathEntry_toggle_delete(e) == [e EXCEPT !.is_delete = ~e.is_delete]

\* StatefulList::new
StatefulList_new == [items |-> <<>>, state |-> None]

\* StatefulList::with_items: index 0 is selected, whatever the items are
with_items(items) == [items |-> items, state |-> 0]

\* StatefulList::get_index
get_index(l) == l.state

\* a next that stops at the last index
next_NoWrap(l) ==
    IF l.items = <<>> THEN l
    ELSE [l EXCEPT !.state =
            IF l.state # None
            THEN (IF l.state >= Len(l.items) - 1 THEN l.state ELSE l.state + 1)
            ELSE 0]

\* a next whose wrap test is off by one
next_OffByOne(l) ==
    IF l.items = <<>> THEN l
    ELSE [l EXCEPT !.state =
            IF l.state # None
            THEN (IF l.state >= Len(l.items) THEN 0 ELSE l.state + 1)
            ELSE 0]

\* StatefulList::next
next(l) ==
    IF l.items = <<>> THEN l
    ELSE [l EXCEPT !.state =
            IF l.state # None
            THEN (IF l.state >= Len(l.items) - 1 THEN 0 ELSE l.state + 1)
            ELSE 0]

\* a previous that stops at the first index
previous_NoWrap(l) ==
    IF l.items = <<>> THEN l
    ELSE [l EXCEPT !.state =
            IF l.state # None
            THEN (IF l.state = 0 THEN 0 ELSE l.state - 1)
            ELSE 0]

\* StatefulList::previous
previous(l) ==
    IF l.items = <<>> THEN l
    ELSE [l EXCEPT !.state =
            IF l.state # None
            THEN (IF l.state = 0 THEN Len(l.items) - 1 ELSE l.state - 1)
            ELSE 0]

IsMarked(e) == e.is_delete
IsUnmarked(e) == ~e.is_delete

\* App::get_entries_by(|e| e.is_delete()) and App::get_entries_by(|e| !e.is_delete())
entries_to_delete(l) == SelectSeq(l.items, IsMarked)
survivors(l) == SelectSeq(l.items, IsUnmarked)

\* App::update_list
update_list(entries) == with_items(entries)

\* a search that always matches case-sensitively
search_with_pattern_Sensitive(s, case_sensitive, f) ==
    LET paths == GlobWith(s, TRUE, f)
    IN  [i \in 1..Len(paths) |-> PathEntry_new(paths[i], f)]

\* App::search_with_pattern on a valid pattern: one fresh entry per match
search_with_pattern(s, case_sensitive, f) ==
    LET paths == GlobWith(s, case_sensitive, f)
    IN  [i \in 1..Len(paths) |-> PathEntry_new(paths[i], f)]

\* a loop that goes on with the next entry after a failing removal
RECURSIVE DeleteLoop_BestEffort(_, _, _, _)
DeleteLoop_BestEffort(es, i, f, att) ==
    IF i > Len(es)
    THEN { [ok |-> \A j \in 1..Len(att) : att[j] \notin f, fs |-> f, attempted |-> att] }
    ELSE LET entry == es[i]
             outs == IF entry.is_file
                     THEN RemoveFile(entry.pathbuf, f)
                     ELSE RemoveDirAll(entry.pathbuf, f)
         IN  UNION { DeleteLoop_BestEffort(es, i+1, o.fs, Append(att, entry.pathbuf))
                   : o \in outs }

\* The for loop of App::delete_active_entries from the i-th entry on: the
\* possible outcomes [ok, fs, attempted]; the first failing removal ends it.
RECURSIVE DeleteLoop(_, _, _, _)
DeleteLoop(es, i, f, att) ==
    IF i > Len(es)
    THEN { [ok |-> TRUE, fs |-> f, attempted |-> att] }
    ELSE LET entry == es[i]
             outs == IF entry.is_file
                     THEN RemoveFile(entry.pathbuf, f)
                     ELSE RemoveDirAll(entry.pathbuf, f)
         IN  UNION { IF o.ok
                     THEN DeleteLoop(es, i+1, o.fs, Append(att, entry.pathbuf))
                     ELSE { [ok |-> FALSE, fs |-> o.fs,
                             attempted |-> Append(att, entry.pathbuf)] }
                   : o \in outs }

\* a delete_active_entries that keeps the cursor where it was
ListAfterDelete_KeepsCursor(l, ok) ==
    IF ok THEN [items |-> survivors(l), state |-> l.state] ELSE l

\* a delete_active_entries that updates the list whatever the loop's outcome
ListAfterDelete_Always(l, ok) == update_list(survivors(l))

\* App::delete_active_entries: the list after the call, given the loop's outcome
ListAfterDelete(l, ok) == IF ok THEN update_list(survivors(l)) ELSE l

(***************************************************************************)
(* The patterns the user types, and the state after construction.          *)
(***************************************************************************)
Patterns ==
    { p \in { <<"*">>, <<"*", "*">>, <<"*", "*", "/", "*">>, <<"d", "/", "*">>,
              <<"d", "/">>, <<"a", "/">>, <<"q">>, <<"A", "*">>, <<"[">>,
              <<"*", "*", "*">>, <<"*", "*", "/", "a", "*">> } :
        Len(p) <= MaxLen }

\* App::new; the filesystem is whole and at most MaxLocked paths resist removal
Init ==
    /\ list = StatefulList_new
    /\ app_mode = "Normal"
    /\ pattern = [content |-> <<>>]
    /\ glob_options = [case_sensitive |-> TRUE]
    /\ fs = Universe
    /\ locked \in { L \in SUBSET Universe : Cardinality(L) <= MaxLocked }
    /\ pc = "loop"
    /\ last = "new"
    /\ attempted = <<>>

(***************************************************************************)
(* run_app: one action per arm of the key dispatch.                        *)
(***************************************************************************)
\* Normal, Enter: App::toggle_delete; indexing past the items panics
ToggleDelete ==
    /\ pc = "loop" /\ app_mode = "Normal"
    /\ last' = "toggle_delete"
    /\ LET i == get_index(list)
       IN  IF i = None
           THEN UNCHANGED <<list, pc>>
           ELSE IF i >= Len(list.items)
                THEN pc' = "panic" /\ UNCHANGED list
                ELSE /\ list' = [list EXCEPT !.items[i+1] = PathEntry_toggle_delete(@)]
                     /\ UNCHANGED pc
    /\ UNCHANGED <<app_mode, pattern, glob_options, fs, locked, attempted>>

\* Normal, Down or j
Next_ ==
    /\ pc = "loop" /\ app_mode = "Normal"
    /\ last' = "next"
    /\ list' = next(list)
    /\ UNCHANGED <<app_mode, pattern, glob_options, fs, locked, pc, attempted>>

\* Normal, Up or k
Previous ==
    /\ pc = "loop" /\ app_mode = "Normal"
    /\ last' = "previous"
    /\ list' = previous(list)
    /\ UNCHANGED <<app_mode, pattern, glob_options, fs, locked, pc, attempted>>

\* Normal, g: App::toggle_case_sensitive
ToggleCaseSensitive ==
    /\ pc = "loop" /\ app_mode = "Normal"
    /\ last' = "toggle_case_sensitive"
    /\ glob_options' = [glob_options EXCEPT !.case_sensitive = ~@]
    /\ UNCHANGED <<list, app_mode, pattern, fs, locked, pc, attempted>>

\* a q key that quits in either mode
Quit_AnyMode ==
    /\ pc = "loop"
    /\ last' = "quit"
    /\ pc' = "quit"
    /\ UNCHANGED <<list, app_mode, pattern, glob_options, fs, locked, attempted>>

\* Normal, q: break
Quit ==
    /\ pc = "loop" /\ app_mode = "Normal"
    /\ last' = "quit"
    /\ pc' = "quit"
    /\ UNCHANGED <<list, app_mode, pattern, glob_options, fs, locked, attempted>>

\* Normal, i
EnterInsert ==
    /\ pc = "loop" /\ app_mode = "Normal"
    /\ last' = "insert"
    /\ app_mode' = "Insert"
    /\ UNCHANGED <<list, pattern, glob_options, fs, locked, pc, attempted>>

\* Normal, d: app.delete_active_entries()?
DeleteActiveEntries ==
    /\ pc = "loop" /\ app_mode = "Normal"
    /\ last' = "delete_active_entries"
    /\ \E o \in DeleteLoop(entries_to_delete(list), 1, fs, <<>>) :
          /\ fs' = o.fs
          /\ attempted' = o.attempted
          /\ list' = ListAfterDelete(list, o.ok)
          /\ pc' = IF o.ok THEN "loop" ELSE "err"
    /\ UNCHANGED <<app_mode, pattern, glob_options, locked>>

\* Insert, Char(ch): App::push_ch
PushCh(ch) ==
    /\ pc = "loop" /\ app_mode = "Insert"
    /\ \E p \in Patterns : IsPrefix(Append(pattern.content, ch), p)
    /\ last' = "push_ch"
    /\ pattern' = [pattern EXCEPT !.content = Append(@, ch)]
    /\ UNCHANGED <<list, app_mode, glob_options, fs, locked, pc, attempted>>

\* a Backspace arm that also leaves Insert mode
PopCh_LeavesInsert ==
    /\ pc = "loop" /\ app_mode = "Insert"
    /\ last' = "pop_ch"
    /\ app_mode' = "Normal"
    /\ pattern' = [pattern EXCEPT !.content =
                      IF @ = <<>> THEN <<>> ELSE SubSeq(@, 1, Len(@) - 1)]
    /\ UNCHANGED <<list, glob_options, fs, locked, pc, attempted>>

\* Insert, Backspace: App::pop_ch
PopCh ==
    /\ pc = "loop" /\ app_mode = "Insert"
    /\ last' = "pop_ch"
    /\ pattern' = [pattern EXCEPT !.content =
                      IF @ = <<>> THEN <<>> ELSE SubSeq(@, 1, Len(@) - 1)]
    /\ UNCHANGED <<list, app_mode, glob_options, fs, locked, pc, attempted>>

\* Insert, Enter: app.set_pattern()? and then set_app_mode(Normal)
SetPattern ==
    /\ pc = "loop" /\ app_mode = "Insert"
    /\ last' = "set_pattern"
    /\ IF ValidPattern(pattern.content)
       THEN /\ list' = update_list(search_with_pattern(pattern.content,
                                      glob_options.case_sensitive, fs))
            /\ app_mode' = "Normal"
            /\ UNCHANGED pc
       ELSE /\ pc' = "err"
            /\ UNCHANGED <<list, app_mode>>
    /\ UNCHANGED <<pattern, glob_options, fs, locked, attempted>>

\* an Esc arm that also discards the typed pattern
Escape_ClearsBuffer ==
    /\ pc = "loop" /\ app_mode = "Insert"
    /\ last' = "escape"
    /\ app_mode' = "Normal"
    /\ pattern' = [pattern EXCEPT !.content = <<>>]
    /\ UNCHANGED <<list, glob_options, fs, locked, pc, attempted>>

\* Insert, Esc
Escape ==
    /\ pc = "loop" /\ app_mode = "Insert"
    /\ last' = "escape"
    /\ app_mode' = "Normal"
    /\ UNCHANGED <<list, pattern, glob_options, fs, locked, pc, attempted>>

\* any other key in either mode: the `_ => {}` arms
OtherKey ==
    /\ pc = "loop"
    /\ last' = "other"
    /\ UNCHANGED <<list, app_mode, pattern, glob_options, fs, locked, pc, attempted>>

Next ==
    \/ ToggleDelete
    \/ Next_
    \/ Previous
    \/ ToggleCaseSensitive
    \/ Quit
    \/ EnterInsert
    \/ DeleteActiveEntries
    \/ \E ch \in Chars : PushCh(ch)
    \/ PopCh
    \/ SetPattern
    \/ Escape
    \/ OtherKey

Spec == Init /\ [][Next]_vars

(***************************************************************************)
(* Properties.                                                             *)
(***************************************************************************)
MarkedPaths(l) == { l.items[i].pathbuf : i \in { j \in 1..Len(l.items) : l.items[j].is_delete } }

\* C1: a commit delete removes from disk no path of an entry that is in the
\* list and unmarked when the commit starts.
C1_UnmarkedStayOnDisk ==
    [][ last' = "delete_active_entries" =>
          \A i \in 1..Len(list.items) :
             (~list.items[i].is_delete /\ list.items[i].pathbuf \in fs)
                => list.items[i].pathbuf \in fs' ]_vars

\* C2: after a successful commit delete the items are exactly the prior
\* unmarked items in their order, and none of them is a path that the commit
\* removed from disk.
C2_SurvivorsExactly ==
    [][ (last' = "delete_active_entries" /\ pc' = "loop") =>
          /\ list'.items = survivors(list)
          /\ \A i \in 1..Len(list'.items) :
                list'.items[i].pathbuf \notin (fs \ fs') ]_vars

\* C3: a commit delete in which a deletion fails leaves the items, their
\* order, their marks and the selection as they were before the call.
C3_FailedDeleteKeepsList ==
    [][ (last' = "delete_active_entries" /\ pc' = "err") => list' = list ]_vars

\* a failed commit delete after at least one successful deletion, on a list
\* with an unmarked entry and the cursor off the first entry
C3_Witness ==
    /\ last = "delete_active_entries" /\ pc = "err"
    /\ Len(attempted) >= 2
    /\ list.state > 0
    /\ survivors(list) # <<>>

\* C4 as stated: when the deletion of the k-th marked entry fails, the marked
\* entries that the call removed from disk are exactly the first k-1, and the
\* deletions attempted are those of the first k marked entries in list order.
C4_ExactlyFirstRemoved ==
    [][ (last' = "delete_active_entries" /\ pc' = "err") =>
          LET td == entries_to_delete(list)
              k  == Len(attempted')
          IN  /\ k >= 1 /\ k <= Len(td)
              /\ attempted' = [j \in 1..k |-> td[j].pathbuf]
              /\ MarkedPaths(list) \cap (fs \ fs') = { td[j].pathbuf : j \in 1..(k-1) } ]_vars

\* C4 amended: when the deletion of the k-th marked entry fails, a deletion
\* was attempted for exactly the first k marked entries, in list order, the
\* first k-1 of these paths are no longer on disk, and the call returns an
\* error.
C4_FailFast ==
    (last = "delete_active_entries" /\ pc = "err") =>
       LET td == entries_to_delete(list)
           k  == Len(attempted)
       IN  /\ k >= 1 /\ k <= Len(td)
           /\ attempted = [j \in 1..k |-> td[j].pathbuf]
           /\ \A j \in 1..(k-1) : attempted[j] \notin fs

\* a commit delete that failed in the middle: after a success, and with
\* marked entries left that were not attempted
C4_Witness ==
    /\ last = "delete_active_entries" /\ pc = "err"
    /\ Len(attempted) >= 2
    /\ Len(attempted) < Len(entries_to_delete(list))

\* C5: the selection is none whenever the list is empty, and an index of the
\* list otherwise.
C5_SelectionInRange ==
    /\ list.items = <<>> => list.state = None
    /\ list.state # None => (0 <= list.state /\ list.state < Len(list.items))

\* C6: on an empty list, move_next, move_previous and toggle mark do not
\* panic and leave current_index() none.
C6_EmptyListNoPanic ==
    (list.items = <<>> /\ last \in {"next", "previous", "toggle_delete"}) =>
       (pc # "panic" /\ get_index(list) = None)

\* C7: committing a malformed pattern in Insert mode leaves the list and the
\* selection unchanged and puts the application in Normal mode.
C7_MalformedRevertsToNormal ==
    [][ (app_mode = "Insert" /\ last' = "set_pattern" /\ ~ValidPattern(pattern.content)) =>
          (list' = list /\ app_mode' = "Normal") ]_vars

\* C8: run_app returns only in response to the quit command; a failed search
\* commit or commit delete does not end the loop.
C8_OnlyQuitEndsLoop == pc \in {"quit", "err"} => last = "quit"

\* C9: a successful search commit replaces the list by the matches in matcher
\* order, every entry marked, with index 0 selected when there is a match.
C9_SearchReplacesList ==
    [][ (app_mode = "Insert" /\ last' = "set_pattern" /\ pc' = "loop") =>
          LET paths == GlobWith(pattern.content, glob_options.case_sensitive, fs)
          IN  /\ Len(list'.items) = Len(paths)
              /\ \A i \in 1..Len(paths) :
                    /\ list'.items[i].pathbuf = paths[i]
                    /\ list'.items[i].is_delete
              /\ (paths # <<>> => list'.state = 0) ]_vars

\* a search commit with several matches, made after an earlier list had been
\* committed for deletion
C9_Witness ==
    /\ last = "set_pattern" /\ pc = "loop"
    /\ Len(list.items) >= 2
    /\ attempted # <<>>

\* C10: the mode starts as Normal; it becomes Insert only on the enter-edit
\* key, becomes Normal only on cancel or commit, and no other event changes it.
C10_ModeChangesOnlyOnTriggers ==
    /\ app_mode = "Normal"
    /\ [][ /\ (app_mode = "Normal" /\ app_mode' = "Insert") => last' = "insert"
           /\ (app_mode = "Insert" /\ app_mode' = "Normal") => last' \in {"escape", "set_pattern"}
           /\ last' \in {"push_ch", "pop_ch", "next", "previous", "toggle_delete",
                         "toggle_case_sensitive", "delete_active_entries", "other"}
                 => app_mode' = app_mode ]_vars

\* back in Normal mode by the cancel key, with a pattern typed in between
C10_Witness ==
    /\ app_mode = "Normal" /\ last = "escape"
    /\ pattern.content # <<>>

(***************************************************************************)
(* StatefulList on its own: any collection that its constructors and       *)
(* operations (new, with_items, next, previous, unselect) produce.         *)
(***************************************************************************)
\* the collections of at most MaxItems entries, marked or not
Collections ==
    UNION { [1..n -> { PathEntry_new(<<NameA>>, Universe),
                       PathEntry_toggle_delete(PathEntry_new(<<NameA>>, Universe)) }]
            : n \in 0..MaxItems }

\* the selections of a collection: none, or an index of it; index 0 also on
\* the empty collection, as with_items leaves it
Selections(items) ==
    {None} \cup (IF items = <<>> THEN {0} ELSE 0..(Len(items) - 1))

InitList ==
    /\ \E items \in Collections : \E sel \in Selections(items) :
          list = [items |-> items, state |-> sel]
    /\ app_mode = "Normal"
    /\ pattern = [content |-> <<>>]
    /\ glob_options = [case_sensitive |-> TRUE]
    /\ fs = Universe
    /\ locked = {}
    /\ pc = "loop"
    /\ last = "new"
    /\ attempted = <<>>

\* StatefulList::unselect
Unselect ==
    /\ pc = "loop"
    /\ last' = "unselect"
    /\ list' = [list EXCEPT !.state = None]
    /\ UNCHANGED <<app_mode, pattern, glob_options, fs, locked, pc, attempted>>

NextList ==
    \/ Next_
    \/ Previous
    \/ Unselect

SpecList == InitList /\ [][NextList]_vars

\* next applied n times
RECURSIVE NextTimes(_, _)
NextTimes(l, n) == IF n = 0 THEN l ELSE NextTimes(next(l), n - 1)

\* the selection is an index of the collection
SelectionInRange(l) == l.state # None /\ l.state < Len(l.items)

\* C11 as stated: for every collection and every selection, none included,
\* move_next applied len times returns the selection to its starting value.
C11_NextLenTimesAnySelection ==
    NextTimes(list, Len(list.items)).state = list.state

\* C11 amended: for every collection whose selection is an index of it (and
\* for the empty collection), move_next applied len times returns the
\* selection to its starting value.
C11_NextLenTimes ==
    (SelectionInRange(list) \/ list.items = <<>>) =>
       NextTimes(list, Len(list.items)).state = list.state

\* a collection of three or more items with the last one selected by move_next
C11_Witness ==
    /\ last = "next"
    /\ Len(list.items) >= 3
    /\ list.state = Len(list.items) - 1

\* C12 as stated: for every collection and every selection, none included,
\* move_previous undoes move_next and move_next undoes move_previous.
C12_InverseAnySelection ==
    /\ previous(next(list)).state = list.state
    /\ next(previous(list)).state = list.state

\* C12 amended: for every collection whose selection is an index of it (and
\* for the empty collection), move_previous undoes move_next and move_next
\* undoes move_previous.
C12_Inverse ==
    (SelectionInRange(list) \/ list.items = <<>>) =>
       /\ previous(next(list)) = list
       /\ next(previous(list)) = list

\* the first item selected by move_previous, in a collection of several items
C12_Witness ==
    /\ last = "previous"
    /\ Len(list.items) >= 2
    /\ list.state = 0

\* C17: on a non-empty collection with selection i, move_next selects
\* (i+1) mod len and move_previous (i-1) mod len; with no selection move_next
\* selects index 0; both leave the items and their marks unchanged.
C17_NextPreviousModulo ==
    [][ /\ (last' = "next" /\ list.items # <<>>) =>
              /\ list'.items = list.items
              /\ list'.state = IF list.state = None THEN 0
                               ELSE (list.state + 1) % Len(list.items)
        /\ (last' = "previous" /\ list.items # <<>>) =>
              /\ list'.items = list.items
              /\ (list.state # None =>
                    list'.state = (list.state - 1 + Len(list.items)) % Len(list.items)) ]_vars

\* the last item selected by move_previous, in a collection of several items
C17_Witness ==
    /\ last = "previous"
    /\ Len(list.items) >= 2
    /\ list.state = Len(list.items) - 1

(***************************************************************************)
(* Properties of the marks, the case flag, the quit key and the buffer.    *)
(***************************************************************************)
\* C13: toggle mark in Normal mode with selection i flips the mark of entry i
\* and changes nothing else; with no selection it changes nothing.
C13_ToggleFlipsOnlySelected ==
    [][ last' = "toggle_delete" =>
          /\ UNCHANGED <<app_mode, pattern, glob_options, fs, pc>>
          /\ IF list.state = None
             THEN list' = list
             ELSE /\ list.state < Len(list.items)
                  /\ list'.state = list.state
                  /\ list'.items = [k \in 1..Len(list.items) |->
                        IF k = list.state + 1
                        THEN [list.items[k] EXCEPT !.is_delete = ~list.items[k].is_delete]
                        ELSE list.items[k]] ]_vars

\* the entries of the list l whose path is p
HasPath(l, p) == \E k \in 1..Len(l.items) : l.items[k].pathbuf = p

\* the one-component pattern c matches the name only when letter case is ignored
DiffersOnlyInCase(c, name) ==
    /\ \A i \in 1..Len(c) : c[i] # "/"
    /\ MatchesWith(c, name, FALSE)
    /\ ~MatchesWith(c, name, TRUE)

\* C14 as stated: a search commit with a pattern that differs from a path only
\* in letter case yields that path exactly when the flag is off at commit
\* time; a toggle flips the flag and nothing else changes it.
C14_CaseFlagAnyPattern ==
    [][ /\ (app_mode = "Insert" /\ last' = "set_pattern" /\ pc' = "loop") =>
              \A p \in { q \in fs : Len(q) = 1 } :
                 DiffersOnlyInCase(pattern.content, p[1]) =>
                    (HasPath(list', p) <=> ~glob_options.case_sensitive)
        /\ last' = "toggle_case_sensitive" =>
              glob_options'.case_sensitive = ~glob_options.case_sensitive
        /\ glob_options' # glob_options => last' = "toggle_case_sensitive" ]_vars

\* C14 amended: the same for a pattern with a wildcard; a pattern without
\* wildcard is looked up on disk as typed, so it does not yield a path that
\* differs from it in letter case, whatever the flag.
C14_CaseFlagWildcard ==
    [][ /\ (app_mode = "Insert" /\ last' = "set_pattern" /\ pc' = "loop") =>
              \A p \in { q \in fs : Len(q) = 1 } :
                 DiffersOnlyInCase(pattern.content, p[1]) =>
                    IF IsLiteral(pattern.content)
                    THEN ~HasPath(list', p)
                    ELSE (HasPath(list', p) <=> ~glob_options.case_sensitive)
        /\ last' = "toggle_case_sensitive" =>
              glob_options'.case_sensitive = ~glob_options.case_sensitive
        /\ glob_options' # glob_options => last' = "toggle_case_sensitive" ]_vars

\* the search A* committed with the flag off has found the file a
C14_Witness ==
    /\ last = "set_pattern" /\ pc = "loop"
    /\ ~glob_options.case_sensitive
    /\ pattern.content = <<"A", "*">>
    /\ HasPath(list, <<NameA>>)

\* the step handles the q key: the break arm in Normal mode, Char('q') in
\* Insert mode
QKey ==
    \/ last' = "quit"
    \/ /\ app_mode = "Insert" /\ last' = "push_ch"
       /\ pattern'.content = Append(pattern.content, "q")

\* C15 as stated: in both modes the quit key ends the interaction loop.
C15_QuitInAnyMode == [][ QKey => pc' = "quit" ]_vars

\* C15 amended: the quit key ends the loop in Normal mode only; in Insert
\* mode it is appended to the pattern and the loop goes on.
C15_QuitInNormalOnly ==
    [][ /\ last' = "quit" => (app_mode = "Normal" /\ pc' = "quit")
        /\ (QKey /\ app_mode = "Insert") =>
              (pc' = "loop" /\ app_mode' = "Insert") ]_vars

\* the loop has ended on the quit key, after a q was typed into the pattern
C15_Witness ==
    /\ pc = "quit"
    /\ pattern.content = <<"q">>

\* C16: in Insert mode, character input, backspace and cancel leave the list,
\* the case flag and the filesystem unchanged; cancel and the enter-edit key
\* leave the buffer unchanged; backspace on an empty buffer changes nothing.
C16_BufferHasNoEffect ==
    [][ /\ last' \in {"push_ch", "pop_ch", "escape"} =>
              UNCHANGED <<list, glob_options, fs>>
        /\ last' \in {"escape", "insert"} => pattern' = pattern
        /\ (last' = "pop_ch" /\ pattern.content = <<>>) =>
              UNCHANGED <<list, app_mode, pattern, glob_options, fs, pc>> ]_vars

\* Insert mode left by the cancel key with a typed pattern, over a list that
\* an earlier search filled
C16_Witness ==
    /\ last = "escape"
    /\ pattern.content # <<>>
    /\ list.items # <<>>
    /\ ~ValidPattern(pattern.content)

(***************************************************************************)
(* A commit delete repeated on the list that the previous one left.        *)
(***************************************************************************)
\* the outcomes of App::delete_active_entries called in the current state
RepeatedDelete == DeleteLoop(entries_to_delete(list), 1, fs, <<>>)

\* C18: right after a successful commit delete no entry is marked and the
\* first survivor is selected, so a commit delete repeated at once removes
\* nothing from disk and leaves the items unchanged.
C18_RepeatAfterSuccess ==
    (last = "delete_active_entries" /\ pc = "loop") =>
       /\ \A k \in 1..Len(list.items) : ~list.items[k].is_delete
       /\ list.items # <<>> => list.state = 0
       /\ \A o \in RepeatedDelete :
             /\ o.ok /\ o.fs = fs /\ o.attempted = <<>>
             /\ ListAfterDelete(list, o.ok).items = list.items

\* a successful commit delete that removed something and left survivors
C18_Witness ==
    /\ last = "delete_active_entries" /\ pc = "loop"
    /\ attempted # <<>>
    /\ Len(list.items) >= 2

\* C19: after a commit delete that failed once a deletion had succeeded, the
\* entries already removed from disk are still in the list, marked; a commit
\* delete retried on that list fails at the first of them and removes nothing.
C19_RetryAfterFailure ==
    (last = "delete_active_entries" /\ pc = "err" /\ Len(attempted) >= 2) =>
       LET td == entries_to_delete(list)
       IN  /\ \A j \in 1..(Len(attempted) - 1) :
                 /\ td[j].pathbuf = attempted[j]
                 /\ attempted[j] \notin fs
           /\ \A o \in RepeatedDelete :
                 /\ ~o.ok /\ o.fs = fs
                 /\ o.attempted = <<attempted[1]>>
                 /\ ListAfterDelete(list, o.ok) = list

\* a commit delete that failed on a path that resists removal, after the file
\* a was removed
C19_Witness ==
    /\ last = "delete_active_entries" /\ pc = "err"
    /\ Len(attempted) >= 2
    /\ attempted[1] = <<NameA>>
    /\ attempted[Len(attempted)] \in locked

====
